---------------------------- MODULE Spec2Model ----------------------------
(***************************************************************************)
(* The Lesson block tool of src/src/index.js (class Lessons) as a state    *)
(* machine: one block instance, its record this._data, its projected       *)
(* element this._element, the entry popups it has opened and the block     *)
(* deletions it has requested from the editor.                             *)
(*                                                                         *)
(* Strings are sequences of characters.  The characters used are ones for  *)
(* which assigning and reading innerHTML gives the same string back, so    *)
(* element content is stored as the string assigned.                       *)
(***************************************************************************)
EXTENDS Integers, Sequences, FiniteSets, TLC

VARIABLES
    settings,   \* this._settings: the tool's config
    phase,      \* "new" (constructor not yet run), "live", "failed" (constructor threw), "removed"
    data,       \* this._data: [text, level]
    element,    \* this._element: null or a DOM element
    popups,     \* number of entry popups appended to document.body and not yet removed
    deletes,    \* number of api.blocks.delete calls made
    last        \* the last operation: its name, inputs, outcome and return value

vars == <<settings, phase, data, element, popups, deletes, last>>

---------------------------------------------------------------------------
(* Bounds of the model *)

MaxText == 2        \* longest string merge() builds
MaxPopups == 2      \* most popups open at once
MaxLevels == 3      \* longest config.levels array the nearest-level fold is applied to

(* Inputs *)

\* the strings the host and the user supply: empty, plain, whitespace only
Strings == {<<>>, <<"a">>, <<" ">>}

---------------------------------------------------------------------------
(* JavaScript values *)

\* A text property: a string or undefined.
Str(s) == [s |-> s, def |-> TRUE]

NoText == [s |-> <<>>, def |-> FALSE]

TextValues == {NoText} \cup {Str(s) : s \in Strings}

\* A level property: undefined, a number, a non-numeric string, or an object.
Num(n) == [n |-> n, k |-> "number"]

NoLevelValue == [n |-> 0, k |-> "undefined"]

NonNumeric == [n |-> 0, k |-> "string"]

ObjectValue == [n |-> 0, k |-> "object"]

LevelValues == {NoLevelValue, NonNumeric, Num(0), Num(2), Num(3)}

\* What the host may hand to the constructor as data.
RawData ==
    {[kind |-> "null", text |-> NoText, level |-> NoLevelValue],
     [kind |-> "undefined", text |-> NoText, level |-> NoLevelValue]}
    \cup {[kind |-> "object", text |-> t, level |-> l] : t \in TextValues, l \in LevelValues}

\* A config.levels property: undefined or an array of numbers.
ConfigLevels ==
    {[set |-> FALSE, v |-> <<>>]}
    \cup {[set |-> TRUE, v |-> v] : v \in {<<>>, <<3>>, <<2, 3>>, <<2, 4>>, <<4, 2>>}}

\* config.defaultLevel: 0 stands for a property that is not given.
Settings == [levels : ConfigLevels, defaultLevel : {0, 2, 3}]

\* String.prototype.trim over Chars
RECURSIVE TrimLeft(_)
TrimLeft(s) ==
    IF s # <<>> /\ Head(s) = " " THEN TrimLeft(Tail(s)) ELSE s

RECURSIVE TrimRight(_)
TrimRight(s) ==
    IF s # <<>> /\ s[Len(s)] = " " THEN TrimRight(SubSeq(s, 1, Len(s) - 1)) ELSE s

Trim(s) == TrimRight(TrimLeft(s))

Abs(x) == IF x < 0 THEN -x ELSE x

\* parseInt(x): a number, or NaN
parseInt(x) ==
    IF x.k = "number" THEN [n |-> x.n, nan |-> FALSE] ELSE [n |-> 0, nan |-> TRUE]

\* the truthiness of a parseInt result: NaN and 0 are falsy
Truthy(p) == ~p.nan /\ p.n # 0

---------------------------------------------------------------------------
(* DOM elements *)

NoElement == [exists |-> FALSE, tag |-> "", html |-> <<>>, parent |-> FALSE]

\* document.createElement(tag) with innerHTML set: not attached to a parent
NewElement(tag, html) == [exists |-> TRUE, tag |-> tag, html |-> html, parent |-> FALSE]

---------------------------------------------------------------------------
(* Levels *)

\* the value undefined where a level descriptor is expected
NoLevel == [tag |-> "", ok |-> FALSE, number |-> 0]

availableLevels == << [tag |-> "H2", ok |-> TRUE, number |-> 2] >>

Includes(seq, x) == \E i \in 1..Len(seq) : seq[i] = x

\* get levels
levels ==
    IF settings.levels.set
      THEN SelectSeq(availableLevels, LAMBDA l : Includes(settings.levels.v, l.number))
      ELSE availableLevels

\* Array.prototype.find by level number: the first match, or undefined
FindLevel(seq, n) ==
    IF \E i \in 1..Len(seq) : seq[i].number = n
      THEN seq[CHOOSE i \in 1..Len(seq) :
                 /\ seq[i].number = n
                 /\ \A j \in 1..(i - 1) : seq[j].number # n]
      ELSE NoLevel

\* get defaultLevel without the fallback to the first level
defaultLevelNoFallback ==
    IF settings.defaultLevel # 0
      THEN FindLevel(levels, settings.defaultLevel)
      ELSE IF Len(levels) > 0 THEN levels[1] ELSE NoLevel

\* get defaultLevel
defaultLevel ==
    IF settings.defaultLevel # 0 /\ FindLevel(levels, settings.defaultLevel).ok
      THEN FindLevel(levels, settings.defaultLevel)
      ELSE IF Len(levels) > 0 THEN levels[1] ELSE NoLevel

\* whether evaluating defaultLevel calls console.warn
defaultLevelWarns ==
    settings.defaultLevel # 0 /\ ~FindLevel(levels, settings.defaultLevel).ok

\* get currentLevel without the fallback to the default level
currentLevelNoDefault(d) == FindLevel(levels, d.level)

\* get currentLevel, for this._data = d
currentLevel(d) ==
    IF FindLevel(levels, d.level).ok THEN FindLevel(levels, d.level) ELSE defaultLevel

currentLevelWarns(d) == ~FindLevel(levels, d.level).ok /\ defaultLevelWarns

---------------------------------------------------------------------------
(* The methods of the class, as functions of the fields they read *)

\* normalizeData(data): the record, or the TypeError of reading a property of
\* null (typeof null is "object") or of undefined (no default level)
normalizeData(raw) ==
    IF raw.kind = "null"
      THEN [text |-> <<>>, level |-> 0, err |-> "TypeError"]
      ELSE LET obj == IF raw.kind # "object"
                        THEN [kind |-> "object", text |-> NoText, level |-> NoLevelValue]
                        ELSE raw
               text == IF obj.text.def THEN obj.text.s ELSE <<>>
               p == parseInt(obj.level)
           IN  IF Truthy(p)
                 THEN [text |-> text, level |-> p.n, err |-> "none"]
                 ELSE IF defaultLevel.ok
                        THEN [text |-> text, level |-> defaultLevel.number, err |-> "none"]
                        ELSE [text |-> <<>>, level |-> 0, err |-> "TypeError"]

normalizeDataWarns(raw) ==
    raw.kind # "null" /\ ~(raw.kind = "object" /\ Truthy(parseInt(raw.level))) /\ defaultLevelWarns

\* getTag() without the branch for an empty text: a heading in every case
getTagNoPopup(d) ==
    IF currentLevel(d).ok
      THEN [err |-> "none", popup |-> FALSE, el |-> NewElement(currentLevel(d).tag, d.text)]
      ELSE [err |-> "TypeError", popup |-> FALSE, el |-> NoElement]

\* getTag() building the heading only while the block has no element yet
getTagFirstOnly(d) ==
    IF d.text = <<>> \/ element.exists
      THEN [err |-> "none", popup |-> d.text = <<>>, el |-> NewElement("DIV", <<>>)]
      ELSE IF currentLevel(d).ok
             THEN [err |-> "none", popup |-> FALSE, el |-> NewElement(currentLevel(d).tag, d.text)]
             ELSE [err |-> "TypeError", popup |-> FALSE, el |-> NoElement]

\* getTag(), for this._data = d: the element built, whether createPopUp ran,
\* or the TypeError of reading .tag of undefined
getTag(d) ==
    IF d.text = <<>>
      THEN [err |-> "none", popup |-> TRUE, el |-> NewElement("DIV", <<>>)]
      ELSE IF currentLevel(d).ok
             THEN [err |-> "none", popup |-> FALSE, el |-> NewElement(currentLevel(d).tag, d.text)]
             ELSE [err |-> "TypeError", popup |-> FALSE, el |-> NoElement]

getTagWarns(d) == d.text # <<>> /\ currentLevelWarns(d)

\* get data, for this._data = d and this._element = el: the record it leaves
\* in this._data (and returns)
getData(d, el) ==
    IF ~el.exists
      THEN [data |-> d, err |-> "TypeError"]
      ELSE LET d1 == [d EXCEPT !.text = el.html]
           IN  IF currentLevel(d1).ok
                 THEN [data |-> [d1 EXCEPT !.level = currentLevel(d1).number], err |-> "none"]
                 ELSE [data |-> d1, err |-> "TypeError"]

\* the element built by getTag() (newLesson) given the content of the
\* element el and put in its place under el's parent
replaceChild(newLesson, el) == [newLesson EXCEPT !.html = el.html, !.parent = TRUE]

\* the assignment of the content left out
setInnerHTMLSkipped(el, text) == el

\* el.innerHTML = text
setInnerHTML(el, text) == [el EXCEPT !.html = text]

\* set data(arg), for this._data = d, this._element = el and p popups open
setData(arg, d, el, p) ==
    LET nd == normalizeData([kind |-> "object", text |-> arg.text, level |-> arg.level])
        d1 == [text |-> nd.text, level |-> nd.level]
        tag == getTag(d1)
        hasLevel == arg.level.k # "undefined"
        rebuild == hasLevel /\ el.exists /\ el.parent
        el2 == IF rebuild THEN replaceChild(tag.el, el) ELSE el
        p2 == IF rebuild /\ tag.popup THEN p + 1 ELSE p
        warned == normalizeDataWarns([kind |-> "object", text |-> arg.text, level |-> arg.level])
    IN  IF nd.err # "none"
          THEN [data |-> d, element |-> el, popups |-> p, err |-> nd.err, warned |-> warned]
        ELSE IF hasLevel /\ ~el.exists
          THEN [data |-> d1, element |-> el, popups |-> p, err |-> "TypeError", warned |-> warned]
        ELSE IF rebuild /\ tag.err # "none"
          THEN [data |-> d1, element |-> el, popups |-> p, err |-> tag.err,
                warned |-> warned \/ getTagWarns(d1)]
        ELSE IF arg.text.def /\ ~el.exists
          THEN [data |-> d1, element |-> el, popups |-> p, err |-> "TypeError", warned |-> warned]
        ELSE [data |-> d1,
              element |-> IF arg.text.def THEN setInnerHTML(el2, d1.text) ELSE el2,
              popups |-> p2,
              err |-> "none",
              warned |-> warned \/ (rebuild /\ getTagWarns(d1))]

\* save(toolsContent), for this._data = d: the record returned
save(toolsContent, d) ==
    LET text == Trim(toolsContent.html)
    IN  IF currentLevel(d).ok
          THEN [text |-> IF text = <<>> THEN <<>> ELSE IF text # <<>> THEN text ELSE d.text,
                level |-> currentLevel(d).number,
                err |-> "none"]
          ELSE [text |-> <<>>, level |-> 0, err |-> "TypeError"]

\* validate comparing the text as given, without trim()
validateUntrimmed(blockData) ==
    IF blockData.text.def
      THEN [err |-> "none", valid |-> blockData.text.s # <<>>]
      ELSE [err |-> "TypeError", valid |-> FALSE]

\* validate(blockData): the boolean returned, or the TypeError of calling
\* .trim of undefined
validate(blockData) ==
    IF blockData.text.def
      THEN [err |-> "none", valid |-> Trim(blockData.text.s) # <<>>]
      ELSE [err |-> "TypeError", valid |-> FALSE]

\* merge taking the level of the other record
mergeDataOtherLevel(live, other) ==
    [text |-> Str(live.text \o other.text.s), level |-> other.level]

\* the record merge(other) passes to set data, live being what get data returned
mergeData(live, other) ==
    [text |-> Str(live.text \o other.text.s), level |-> Num(live.level)]

\* the switch of onPaste over content.tagName
PasteTags == {"H1", "H2", "H3", "P"}

tagLevel(tagName, dflt) ==
    CASE tagName = "H1" -> 1
      [] tagName = "H2" -> 2
      [] tagName = "H3" -> 3
      [] tagName = "H4" -> 4
      [] tagName = "H5" -> 5
      [] tagName = "H6" -> 6
      [] OTHER -> dflt

\* this._settings.levels.reduce(...) of onPaste: a left fold without initial
\* value that keeps the earlier level unless the later one is strictly nearer
RECURSIVE reduceNearest(_, _, _, _)
reduceNearest(seq, i, prevLevel, level) ==
    IF i > Len(seq)
      THEN prevLevel
      ELSE reduceNearest(seq, i + 1,
                         IF Abs(seq[i] - level) < Abs(prevLevel - level) THEN seq[i] ELSE prevLevel,
                         level)

\* the fold taking the later level when it is as near as the earlier one
RECURSIVE reduceLatest(_, _, _, _)
reduceLatest(seq, i, prevLevel, level) ==
    IF i > Len(seq)
      THEN prevLevel
      ELSE reduceLatest(seq, i + 1,
                        IF Abs(seq[i] - level) <= Abs(prevLevel - level) THEN seq[i] ELSE prevLevel,
                        level)

nearestLatest(level, seq) == reduceLatest(seq, 2, seq[1], level)

nearest(level, seq) == reduceNearest(seq, 2, seq[1], level)

\* onPaste without the fallback to the nearest configured level
pasteLevelAsPasted(tagName) ==
    IF ~defaultLevel.ok
      THEN [level |-> 0, err |-> "TypeError"]
      ELSE [level |-> tagLevel(tagName, defaultLevel.number), err |-> "none"]

\* the level onPaste passes to set data, or its TypeError (no default level,
\* or reduce of an empty array)
pasteLevel(tagName) ==
    IF ~defaultLevel.ok
      THEN [level |-> 0, err |-> "TypeError"]
      ELSE LET level == tagLevel(tagName, defaultLevel.number)
           IN  IF settings.levels.set
                 THEN IF settings.levels.v = <<>>
                        THEN [level |-> 0, err |-> "TypeError"]
                        ELSE [level |-> nearest(level, settings.levels.v), err |-> "none"]
                 ELSE [level |-> level, err |-> "none"]

---------------------------------------------------------------------------
(* The state machine *)

NoOp ==
    [kind |-> "object", text |-> NoText, level |-> NoLevelValue, tag |-> "",
     err |-> "none", warned |-> FALSE, valid |-> FALSE, op |-> "none",
     ret |-> [text |-> <<>>, level |-> 0],
     opened |-> FALSE, deleted |-> FALSE, again |-> FALSE,
     rec |-> [text |-> <<>>, level |-> 0],
     pre |-> [element |-> NoElement, popups |-> 0, text |-> <<>>, level |-> 0]]

\* what an operation that writes the record found: the stored text, the number
\* of the resolved current level (0 when none resolves), the element, the popups
Before ==
    [element |-> element,
     popups |-> popups,
     text |-> data.text,
     level |-> currentLevel(data).number]

Init ==
    /\ settings \in Settings
    /\ phase = "new"
    /\ data = [text |-> <<>>, level |-> 0]
    /\ element = NoElement
    /\ popups = 0
    /\ deletes = 0
    /\ last = NoOp

\* new Lessons({data, config, api, readOnly})
Construct(raw) ==
    /\ phase = "new"
    /\ \E nd \in {normalizeData(raw)} :
           /\ phase' = IF nd.err = "none" THEN "live" ELSE "failed"
           /\ data' = IF nd.err = "none" THEN [text |-> nd.text, level |-> nd.level] ELSE data
           /\ last' = [NoOp EXCEPT !.op = "constructor", !.err = nd.err,
                                   !.warned = normalizeDataWarns(raw),
                                   !.kind = raw.kind, !.text = raw.text, !.level = raw.level]
    /\ UNCHANGED <<settings, element, popups, deletes>>

\* render()
Render ==
    /\ phase = "live"
    /\ \E tag \in {getTag(data)} :
           /\ tag.popup => popups < MaxPopups
           /\ element' = IF tag.err = "none" THEN tag.el ELSE element
           /\ popups' = IF tag.popup THEN popups + 1 ELSE popups
           /\ last' = [NoOp EXCEPT !.op = "render", !.err = tag.err,
                                   !.warned = getTagWarns(data), !.opened = tag.popup,
                                   !.again = last.op = "render",
                                   !.rec = data, !.pre = Before]
    /\ UNCHANGED <<settings, phase, data, deletes>>

\* the editor appends the element render() returned to the document
Attach ==
    /\ phase = "live"
    /\ element.exists
    /\ ~element.parent
    /\ element' = [element EXCEPT !.parent = TRUE]
    /\ last' = [NoOp EXCEPT !.op = "attach", !.rec = data]
    /\ UNCHANGED <<settings, phase, data, popups, deletes>>

\* the user edits the content of the contentEditable element
Input(s) ==
    /\ phase = "live"
    /\ element.exists
    /\ element.parent
    /\ element.tag # "DIV"
    /\ s # element.html
    /\ element' = [element EXCEPT !.html = s]
    /\ last' = [NoOp EXCEPT !.op = "input", !.text = Str(s), !.rec = data]
    /\ UNCHANGED <<settings, phase, data, popups, deletes>>

\* save(toolsContent) storing the element's content in the record
SaveStoring ==
    /\ phase = "live"
    /\ element.exists
    /\ \E r \in {save(element, data)} :
           last' = [NoOp EXCEPT !.op = "save", !.err = r.err,
                                !.warned = currentLevelWarns(data),
                                !.ret = [text |-> r.text, level |-> r.level],
                                !.rec = data, !.pre = Before]
    /\ data' = [data EXCEPT !.text = element.html]
    /\ UNCHANGED <<settings, phase, element, popups, deletes>>

\* save(toolsContent), called with the block's element
Save ==
    /\ phase = "live"
    /\ element.exists
    /\ \E r \in {save(element, data)} :
           last' = [NoOp EXCEPT !.op = "save", !.err = r.err,
                                !.warned = currentLevelWarns(data),
                                !.ret = [text |-> r.text, level |-> r.level],
                                !.rec = data, !.pre = Before]
    /\ UNCHANGED <<settings, phase, data, element, popups, deletes>>

\* validate(blockData)
Validate(blockData) ==
    /\ phase = "live"
    /\ \E r \in {validate(blockData)} :
           last' = [NoOp EXCEPT !.op = "validate", !.err = r.err, !.text = blockData.text,
                                !.valid = r.valid,
                                !.rec = data, !.pre = Before]
    /\ UNCHANGED <<settings, phase, data, element, popups, deletes>>

\* merge(data)
Merge(other) ==
    /\ phase = "live"
    /\ Len(element.html) + Len(other.text.s) <= MaxText
    /\ \E g \in {getData(data, element)} :
       \E r \in {setData(mergeData(g.data, other), g.data, element, popups)} :
           IF g.err # "none"
             THEN /\ data' = g.data
                  /\ last' = [NoOp EXCEPT !.op = "merge", !.pre = Before, !.err = g.err,
                                          !.warned = element.exists /\ currentLevelWarns(g.data),
                                          !.text = other.text, !.level = other.level]
                  /\ UNCHANGED <<element, popups>>
             ELSE /\ r.popups <= MaxPopups
                  /\ data' = r.data
                  /\ element' = r.element
                  /\ popups' = r.popups
                  /\ last' = [NoOp EXCEPT !.op = "merge", !.pre = Before, !.err = r.err,
                                          !.warned = currentLevelWarns(g.data) \/ r.warned,
                                          !.text = other.text, !.level = other.level,
                                          !.opened = r.popups > popups]
    /\ UNCHANGED <<settings, phase, deletes>>

\* onPaste(event), event.detail.data being an element tagName with innerHTML content
OnPaste(tagName, content) ==
    /\ phase = "live"
    /\ \E pl \in {pasteLevel(tagName)} :
       \E r \in {setData([text |-> Str(content), level |-> Num(pl.level)], data, element, popups)} :
           IF pl.err # "none"
             THEN /\ last' = [NoOp EXCEPT !.op = "onPaste", !.err = pl.err,
                                          !.warned = defaultLevelWarns,
                                          !.text = Str(content), !.tag = tagName]
                  /\ UNCHANGED <<data, element, popups>>
             ELSE /\ r.popups <= MaxPopups
                  /\ data' = r.data
                  /\ element' = r.element
                  /\ popups' = r.popups
                  /\ last' = [NoOp EXCEPT !.op = "onPaste", !.err = r.err,
                                          !.warned = defaultLevelWarns \/ r.warned,
                                          !.text = Str(content), !.tag = tagName,
                                          !.opened = r.popups > popups]
    /\ UNCHANGED <<settings, phase, deletes>>

\* a click on the OK button of an open popup whose input holds inputValue
PopupOk(inputValue) ==
    /\ phase = "live"
    /\ popups > 0
    /\ IF inputValue # <<>>
         THEN \E r \in {setData([text |-> Str(inputValue),
                                   level |-> IF currentLevel(data).ok THEN ObjectValue
                                                                      ELSE NoLevelValue],
                                  data, element, popups)} :
                  /\ data' = r.data
                  /\ element' = r.element
                  /\ popups' = IF r.err = "none" THEN r.popups - 1 ELSE r.popups
                  /\ last' = [NoOp EXCEPT !.op = "ok", !.pre = Before, !.err = r.err,
                                          !.warned = currentLevelWarns(data) \/ r.warned,
                                          !.text = Str(inputValue)]
                  /\ UNCHANGED <<phase, deletes>>
         ELSE /\ deletes' = deletes + 1
              /\ popups' = popups - 1
              /\ phase' = "removed"
              /\ last' = [NoOp EXCEPT !.op = "ok", !.pre = Before, !.text = Str(inputValue),
                                      !.deleted = TRUE]
              /\ UNCHANGED <<data, element>>
    /\ UNCHANGED settings

\* a click on the Cancel button of an open popup
PopupCancel ==
    /\ phase = "live"
    /\ popups > 0
    /\ popups' = popups - 1
    /\ last' = [NoOp EXCEPT !.op = "cancel", !.pre = Before, !.rec = data]
    /\ UNCHANGED <<settings, phase, data, element, deletes>>

Next ==
    \/ \E raw \in RawData : Construct(raw)
    \/ Render
    \/ Attach
    \/ \E s \in Strings : Input(s)
    \/ Save
    \/ \E t \in TextValues : Validate([text |-> t])
    \/ \E t \in Strings, l \in {2, 3} : Merge([text |-> Str(t), level |-> Num(l)])
    \/ \E tagName \in PasteTags, content \in Strings : OnPaste(tagName, content)
    \/ \E inputValue \in Strings : PopupOk(inputValue)
    \/ PopupCancel

Spec == Init /\ [][Next]_vars

---------------------------------------------------------------------------
(* The data setter called on its own: src/src/index.js makes every call of  *)
(* it with both text and level (merge, onPaste, the OK handler); the        *)
(* accessor is public, and a caller may pass a part of a record.            *)

\* this.data = arg
ReplaceRecord(arg) ==
    /\ phase = "live"
    /\ \E r \in {setData(arg, data, element, popups)} :
           /\ r.popups <= MaxPopups
           /\ data' = r.data
           /\ element' = r.element
           /\ popups' = r.popups
           /\ last' = [NoOp EXCEPT !.op = "set data", !.pre = Before, !.err = r.err,
                                   !.warned = r.warned,
                                   !.text = arg.text, !.level = arg.level,
                                   !.opened = r.popups > popups]
    /\ UNCHANGED <<settings, phase, deletes>>

NextSetter ==
    \/ Next
    \/ \E t \in TextValues, l \in {NoLevelValue, Num(2), Num(4)} :
           ReplaceRecord([text |-> t, level |-> l])

SpecSetter == Init /\ [][NextSetter]_vars

(* Construction, render and save alone: the round trip of a record *)

NextRoundTrip ==
    \/ \E raw \in RawData : Construct(raw)
    \/ Render
    \/ Save

SpecRoundTrip == Init /\ [][NextRoundTrip]_vars

(* The nearest-level fold of onPaste alone, over longer config.levels       *)
(* arrays: every array of heading ranks up to MaxLevels long that leaves a  *)
(* level (onPaste reads this.defaultLevel.number before the fold, so the    *)
(* fold runs only then), and every rank a pasted heading can have.          *)

\* the ranks of the headings H1 to H6
Ranks == 1..6

LevelArrays == UNION {[1..n -> Ranks] : n \in 1..MaxLevels}

InitNearest ==
    /\ settings \in [levels : {[set |-> TRUE, v |-> v] : v \in LevelArrays}, defaultLevel : {0}]
    /\ Len(levels) > 0
    /\ phase = "new"
    /\ data = [text |-> <<>>, level |-> 0]
    /\ element = NoElement
    /\ popups = 0
    /\ deletes = 0
    /\ last = NoOp

\* level = this._settings.levels.reduce(...), for the rank level of the
\* pasted heading
NearestLevel(level) ==
    /\ settings.levels.set
    /\ \E r \in {nearest(level, settings.levels.v)} :
           last' = [NoOp EXCEPT !.op = "nearest", !.level = Num(level),
                                !.ret = [text |-> <<>>, level |-> r]]
    /\ UNCHANGED <<settings, phase, data, element, popups, deletes>>

NextNearest == \E level \in Ranks : NearestLevel(level)

SpecNearest == InitNearest /\ [][NextNearest]_vars

---------------------------------------------------------------------------
(* Properties *)

\* the configuration leaves at least one level
HasLevels == Len(levels) > 0

\* the block is pending: rendered with empty text, a popup open
Pending ==
    /\ phase = "live"
    /\ data.text = <<>>
    /\ element.exists
    /\ element.tag = "DIV"
    /\ popups > 0

\* the block was pending when the last operation began
WasPending ==
    /\ last.pre.text = <<>>
    /\ last.pre.element.exists
    /\ last.pre.element.tag = "DIV"
    /\ last.pre.popups > 0

\* C1: with at least one level configured, render() opens the entry popup and
\* returns an empty placeholder element exactly when the record's text is
\* empty; otherwise it opens no popup and returns an element whose tag is the
\* tag of the resolved current level and whose content is the record's text.
C1_RenderProjects ==
    (HasLevels /\ last.op = "render") =>
        /\ last.err = "none"
        /\ last.opened <=> data.text = <<>>
        /\ data.text = <<>> => element = NewElement("DIV", <<>>)
        /\ data.text # <<>> =>
              /\ element.exists
              /\ element.tag = currentLevel(data).tag
              /\ element.tag # "DIV"
              /\ element.html = data.text

\* C1 witness: a record {text: "a", level: 2} was rendered to an H2 holding "a"
C1_Witness ==
    /\ last.op = "render"
    /\ data = [text |-> <<"a">>, level |-> 2]
    /\ element.tag = "H2"
    /\ element.html = <<"a">>
    /\ ~last.opened

\* C1 second case reached: an empty record was rendered to the placeholder
C1_WitnessPending ==
    /\ last.op = "render"
    /\ last.opened
    /\ Pending

\* C2: with at least one level configured, the constructor's normalizeData
\* returns for every input data, without raising an error, a record whose
\* level resolves to a configured level descriptor.
C2_InitializeTotal ==
    (HasLevels /\ last.op = "constructor") =>
        /\ last.err = "none"
        /\ phase = "live"
        /\ FindLevel(levels, currentLevel(data).number).ok


\* initialize(r, c) of a saved record r
Reinitialize(r) ==
    normalizeData([kind |-> "object", text |-> Str(r.text), level |-> Num(r.level)])

\* C3: round trip.  For every input record with non-empty text, constructing
\* a block from it, rendering it, saving the rendered element and
\* initializing again from the saved record gives the record the constructor
\* made (here data: render and save leave it as constructed).
C3_RoundTrip ==
    (HasLevels /\ last.op = "save" /\ data.text # <<>>) =>
        /\ last.err = "none"
        /\ Reinitialize(last.ret).err = "none"
        /\ Reinitialize(last.ret).text = data.text
        /\ Reinitialize(last.ret).level = data.level

\* C4: from the pending state, Cancel, or OK with an empty input, requests
\* the deletion of the block from the host and closes the popup.
C4_CloseEmptyDeletes ==
    (/\ last.op = "cancel" \/ (last.op = "ok" /\ last.text.s = <<>>)
     /\ WasPending) =>
        /\ last.deleted
        /\ deletes > 0
        /\ popups = last.pre.popups - 1

\* C5: from the pending state, with at least one level configured, OK with a
\* non-empty input t closes the popup, requests no deletion, and the record
\* the data getter then returns has text t and the level number that was
\* current before the click.
C5_ConfirmRenders ==
    (HasLevels /\ WasPending /\ last.op = "ok" /\ last.text.s # <<>>) =>
        /\ last.err = "none"
        /\ popups = last.pre.popups - 1
        /\ deletes = 0
        /\ ~last.deleted
        /\ phase = "live"
        /\ getData(data, element).err = "none"
        /\ getData(data, element).data = [text |-> last.text.s, level |-> last.pre.level]

\* C5 witness: OK with "a" was pressed on a block with no text, and the block
\* now holds "a"
C5_Witness ==
    /\ HasLevels
    /\ WasPending
    /\ last.op = "ok"
    /\ last.err = "none"
    /\ last.text.s = <<"a">>
    /\ getData(data, element).data = [text |-> <<"a">>, level |-> 2]
    /\ popups = 0
    /\ deletes = 0

\* the heading tag of a rank
RankTag(n) ==
    CASE n = 1 -> "H1" [] n = 2 -> "H2" [] n = 3 -> "H3"
      [] n = 4 -> "H4" [] n = 5 -> "H5" [] n = 6 -> "H6"

\* C6: for a block whose element holds text and is attached to a parent, the
\* data setter called with a level n and no text replaces the element by an
\* attached element of rank n's tag with the same content.
C6_LevelChangeRebuilds ==
    (/\ HasLevels
     /\ last.op = "set data" /\ last.level.k = "number" /\ ~last.text.def
     /\ last.pre.element.exists /\ last.pre.element.parent
     /\ last.pre.element.tag # "DIV" /\ last.pre.element.html # <<>>) =>
        /\ last.err = "none"
        /\ element.exists
        /\ element.parent
        /\ element.tag = RankTag(last.level.n)
        /\ element.html = last.pre.element.html

\* C7: save on an element whose content is empty after trimming returns the
\* stored text of the record; otherwise it returns the (trimmed) content; the
\* level returned is the number of the resolved current level.
C7_SaveFallsBack ==
    (HasLevels /\ last.op = "save") =>
        /\ last.err = "none"
        /\ last.ret.text = IF Trim(element.html) = <<>> THEN data.text ELSE Trim(element.html)
        /\ last.ret.level = currentLevel(data).number

\* C8: with at least one level configured, merge(other) on a block that has
\* an element sets the record's text and the element's content to the
\* element's content before the call followed by other.text, and leaves the
\* block's level (the number of its resolved current level) as it was.
C8_MergeConcatenates ==
    (HasLevels /\ last.pre.element.exists /\ last.op = "merge") =>
        /\ last.err = "none"
        /\ data.text = last.pre.element.html \o last.text.s
        /\ element.html = last.pre.element.html \o last.text.s
        /\ data.level = last.pre.level
        /\ currentLevel(data).number = last.pre.level

\* C8 witness: "a" was merged into a block holding "a", and the other
\* record carried a level that is not the block's
C8_Witness ==
    /\ last.op = "merge"
    /\ last.err = "none"
    /\ last.pre.element.html = <<"a">>
    /\ last.text.s = <<"a">>
    /\ last.level = Num(3)
    /\ data = [text |-> <<"a", "a">>, level |-> 2]
    /\ element.html = <<"a", "a">>

\* the rank of a heading tag
TagRank(tagName) ==
    CASE tagName = "H1" -> 1 [] tagName = "H2" -> 2 [] tagName = "H3" -> 3
      [] tagName = "H4" -> 4 [] tagName = "H5" -> 5 [] tagName = "H6" -> 6

\* n is in candidates at the least distance from target and before every
\* other candidate at that distance
IsNearest(n, target, candidates) ==
    \E i \in 1..Len(candidates) :
        /\ candidates[i] = n
        /\ \A j \in 1..Len(candidates) : Abs(candidates[j] - target) >= Abs(n - target)
        /\ \A j \in 1..(i - 1) : Abs(candidates[j] - target) > Abs(n - target)

\* C9: with at least one level configured, onPaste of a heading of rank k with
\* content c on a block that has an element makes the record {level: L,
\* text: c} and the element's content c, L being k when config.levels is not
\* set and the nearest of config.levels to k when it is.
C9_PasteNormalizes ==
    (HasLevels /\ element.exists /\ last.op = "onPaste" /\ last.tag # "P") =>
        /\ last.err = "none"
        /\ data.text = last.text.s
        /\ element.html = last.text.s
        /\ ~settings.levels.set => data.level = TagRank(last.tag)
        /\ settings.levels.set => IsNearest(data.level, TagRank(last.tag), settings.levels.v)

\* C9 witness: an H1 was pasted with config.levels = [2, 3], giving level 2
C9_Witness ==
    /\ last.op = "onPaste"
    /\ last.tag = "H1"
    /\ settings.levels = [set |-> TRUE, v |-> <<2, 3>>]
    /\ last.text.s = <<"a">>
    /\ data = [text |-> <<"a">>, level |-> 2]
    /\ element.html = <<"a">>

\* C9 tie reached: an H3 was pasted with config.levels = [4, 2], giving level 4
C9_WitnessTie ==
    /\ last.op = "onPaste"
    /\ last.tag = "H3"
    /\ settings.levels = [set |-> TRUE, v |-> <<4, 2>>]
    /\ data.level = 4
    /\ element.exists

\* C10: with at least one level configured, no operation the host invokes
\* raises an error.
C10_NoThrow ==
    (HasLevels /\ last.op \in {"render", "save", "merge", "validate", "onPaste"}) =>
        last.err = "none"

\* C11: when config.levels leaves no level, the constructor fails for every
\* input data, also data carrying a numeric level: no block is ever live
\* (or was live and then removed) with an empty set of levels.
C11_NoLevelsFailsConstruction ==
    ~HasLevels => phase \in {"new", "failed"}

\* record.text consists of whitespace only
Blank(s) == \A i \in 1..Len(s) : s[i] = " "

\* C12: validate(record), for a record with a text, returns false exactly when
\* the text is empty or whitespace only, and true otherwise.
C12_ValidateTrims ==
    (last.op = "validate" /\ last.text.def) =>
        /\ last.err = "none"
        /\ last.valid <=> ~Blank(last.text.s)

\* C12 witness: validate({text: " "}) returned false
C12_Witness ==
    /\ last.op = "validate"
    /\ last.text = Str(<<" ">>)
    /\ last.err = "none"
    /\ ~last.valid

\* C12 second case reached: validate({text: "a"}) returned true
C12_WitnessTrue ==
    /\ last.op = "validate"
    /\ last.text = Str(<<"a">>)
    /\ last.valid

\* C13: with at least one level configured, a render() that follows a
\* render() with nothing in between leaves the record {text, level} as it
\* was, returns an element of the same tag and content as the one before,
\* and opens one more popup exactly when the record's text is empty; the
\* block stays live and no deletion is requested.
C13_RenderIdempotent ==
    (HasLevels /\ last.op = "render" /\ last.again) =>
        /\ last.err = "none"
        /\ data = last.rec
        /\ last.pre.element.exists
        /\ element.exists
        /\ element.tag = last.pre.element.tag
        /\ element.html = last.pre.element.html
        /\ last.opened <=> data.text = <<>>
        /\ popups = last.pre.popups + (IF data.text = <<>> THEN 1 ELSE 0)
        /\ phase = "live"
        /\ deletes = 0

\* C13 witness: a record {text: "a", level: 2} was rendered twice in a row,
\* to an H2 holding "a" both times
C13_Witness ==
    /\ last.op = "render"
    /\ last.again
    /\ data = [text |-> <<"a">>, level |-> 2]
    /\ last.pre.element = NewElement("H2", <<"a">>)
    /\ element = NewElement("H2", <<"a">>)
    /\ popups = 0

\* C13 second case reached: an empty record was rendered twice in a row and
\* the second render opened a second popup
C13_WitnessPending ==
    /\ last.op = "render"
    /\ last.again
    /\ data.text = <<>>
    /\ last.opened
    /\ popups = 2

\* the block is rendered: live, with an element that holds text
Rendered ==
    /\ phase = "live"
    /\ element.exists
    /\ element.html # <<>>

\* C14: with at least one level configured, in every reachable state in
\* which the block is rendered the element's tag is the tag of the resolved
\* level of the record, attached to a parent or not.
C14_ProjectionMatchesLevel ==
    (HasLevels /\ Rendered) => element.tag = currentLevel(data).tag

\* C15: with at least one level configured, in every reachable state of a
\* constructed block the level stored in the record is the number of exactly
\* one configured level (so of a level that config.levels lets through).
C15_StoredLevelConfigured ==
    (HasLevels /\ phase \in {"live", "removed"}) =>
        Cardinality({i \in 1..Len(levels) : levels[i].number = data.level}) = 1

\* the block was rendered, with a heading, when the last operation began
WasRendered ==
    /\ last.pre.element.exists
    /\ last.pre.element.tag # "DIV"
    /\ last.pre.element.html # <<>>
    /\ last.pre.text # <<>>

\* C16: with at least one level configured, a call of the data setter with a
\* level, a text or both on a rendered block raises no error, opens no
\* popup, leaves a heading element in place (no empty placeholder) and
\* requests no deletion.
C16_SetterKeepsRendered ==
    (/\ HasLevels
     /\ last.op = "set data"
     /\ last.text.def \/ last.level.k # "undefined"
     /\ WasRendered) =>
        /\ last.err = "none"
        /\ ~last.opened
        /\ popups = last.pre.popups
        /\ element.exists
        /\ element.tag # "DIV"
        /\ phase = "live"
        /\ deletes = 0

\* C17: the nearest-level fold of onPaste, for every rank and every
\* config.levels array it is applied to, returns an entry of the array at
\* the least absolute difference from the rank, and among entries equally
\* near the one that comes first in the array.
C17_NearestMinimizes ==
    last.op = "nearest" =>
        /\ Includes(settings.levels.v, last.ret.level)
        /\ IsNearest(last.ret.level, last.level.n, settings.levels.v)

\* C17 witness: for rank 3 and config.levels = [4, 2, 6] the fold returned 4,
\* the earlier of the two nearest entries
C17_Witness ==
    /\ last.op = "nearest"
    /\ settings.levels.v = <<4, 2, 6>>
    /\ last.level = Num(3)
    /\ last.ret.level = 4

\* config.defaultLevel is given and is the number of a configured level
DefaultPresent ==
    /\ settings.defaultLevel # 0
    /\ \E i \in 1..Len(levels) : levels[i].number = settings.defaultLevel

\* the number defaultLevel is to return
DefaultNumber ==
    IF DefaultPresent THEN settings.defaultLevel ELSE levels[1].number

\* C18: with at least one level configured, the constructor given data
\* without a usable level stores the default level: config.defaultLevel when
\* it is given and configured, otherwise the first configured level; a
\* warning is written exactly when config.defaultLevel is given and not
\* configured, and construction goes on without error.
C18_DefaultLevelFallsBack ==
    (/\ HasLevels
     /\ last.op = "constructor"
     /\ last.kind # "null"
     /\ last.level.k # "number" \/ last.level.n = 0) =>
        /\ last.err = "none"
        /\ phase = "live"
        /\ data.level = DefaultNumber
        /\ \E i \in 1..Len(levels) : levels[i].number = data.level
        /\ last.warned <=> (settings.defaultLevel # 0 /\ ~DefaultPresent)

\* C18 witness: config {levels: [2, 4], defaultLevel: 3} and data {} gave
\* level 2 and a warning
C18_Witness ==
    /\ last.op = "constructor"
    /\ settings = [levels |-> [set |-> TRUE, v |-> <<2, 4>>], defaultLevel |-> 3]
    /\ last.kind = "object"
    /\ last.level = NoLevelValue
    /\ last.err = "none"
    /\ last.warned
    /\ data.level = 2
    /\ phase = "live"

\* C18 second case reached: config.defaultLevel = 2 is configured and was
\* stored without a warning
C18_WitnessPresent ==
    /\ last.op = "constructor"
    /\ settings.defaultLevel = 2
    /\ HasLevels
    /\ last.level = NoLevelValue
    /\ ~last.warned
    /\ data.level = 2

\* the levels resolve is asked for: the documented ranks and their neighbours
ProbeLevels == -1..7

\* C19: with at least one level configured, get currentLevel for a stored
\* level n (each probed n, and the level the record holds) returns the
\* configured descriptor of number n when there is one and the default
\* level otherwise, and resolving the number of what it returned returns
\* the same descriptor.
C19_ResolveIdempotent ==
    HasLevels =>
        \A n \in ProbeLevels \cup {data.level} :
            LET r == currentLevel([text |-> <<>>, level |-> n])
                configured == \E i \in 1..Len(levels) : levels[i].number = n
            IN  /\ r.ok
                /\ Includes(levels, r)
                /\ configured => r.number = n
                /\ ~configured => r.number = DefaultNumber
                /\ currentLevel([text |-> <<>>, level |-> r.number]) = r

\* C19 witness: a block whose record holds level 3, which is not configured,
\* was saved with the default level 2
C19_Witness ==
    /\ HasLevels
    /\ last.op = "save"
    /\ last.err = "none"
    /\ data.level = 3
    /\ last.ret.level = 2

\* C20: save and validate leave the record, the element (tag, content,
\* parent) and the popups as they found them, request no deletion and keep
\* the block live; render, the editor's attaching, the user's input and
\* Cancel leave the record as it was too, so that the record changes only
\* through the data accessors (merge, onPaste, OK).
C20_SaveValidateReadOnly ==
    /\ last.op \in {"save", "validate"} =>
          /\ data = last.rec
          /\ element = last.pre.element
          /\ popups = last.pre.popups
          /\ ~last.opened
          /\ deletes = 0
          /\ phase = "live"
    /\ last.op \in {"render", "attach", "input", "cancel"} => data = last.rec

\* C20 witness: the user emptied the element of a block holding "a" and
\* save returned "" while the record still holds "a"
C20_Witness ==
    /\ last.op = "save"
    /\ last.err = "none"
    /\ data = [text |-> <<"a">>, level |-> 2]
    /\ last.rec = data
    /\ element.html = <<>>
    /\ element.tag = "H2"
    /\ last.ret.text = <<>>

\* C20 second case reached: validate of a record with another text left the
\* block's record and element alone
C20_WitnessValidate ==
    /\ last.op = "validate"
    /\ last.text = Str(<<" ">>)
    /\ data.text = <<"a">>
    /\ element.html = <<"a">>
    /\ last.pre.element = element

===========================================================================
